---------------------------- MODULE Spec2Model ----------------------------
(***************************************************************************)
(* A model of shm_win_patch.py: the replacement initializer                *)
(* _SharedMemory_init of multiprocessing.shared_memory.SharedMemory, on    *)
(* both platform families (_USE_POSIX true: shm_open/ftruncate/mmap,       *)
(* false: CreateFileMapping/MapViewOfFile/tagged mmap), run by two         *)
(* processes against one kernel namespace of named shared-memory objects.  *)
(* Every OS call of the initializer is one atomic step, so the processes   *)
(* interleave between any two OS calls.                                    *)
(***************************************************************************)
EXTENDS Integers, Sequences, FiniteSets, TLC

(***************************************************************************)
(* Bounds of the model.                                                    *)
(***************************************************************************)
\* Number of open() calls made in one behaviour, over all processes.
MaxCalls == 2
\* Number of distinct values the random name generator can draw.
NCand == 2
\* The counter of exclusive-creation attempts of one call saturates here.
AttemptCap == 2
\* Stand-in for 2^32, the width of one DWORD of the size handed to
\* CreateFileMapping: TLC's integers are 32 bits wide, so the word widths of
\* the program are scaled down, keeping their ratios (off_t and Py_ssize_t
\* hold half the range of two DWORDs).
DWord == 1024

Procs == {"p1", "p2"}

(***************************************************************************)
(* Program constants.                                                      *)
(***************************************************************************)
_SHM_SAFE_NAME_LENGTH == 14
\* mmap.PAGESIZE, the granularity VirtualQuerySize reports sizes in.
PAGESIZE == 4096

\* First value that neither off_t (os.ftruncate) nor Py_ssize_t (mmap.mmap)
\* can hold: the stand-in for 2^63.
OffTLimit == (DWord * DWord) \div 2

\* name=None of the initializer; names are non-empty sequences of characters.
None == << >>
NoObj == 0
NoMap == [obj |-> NoObj, len |-> 0, access |-> "none"]

O_RDWR == {"O_RDWR"}
_O_CREX == {"O_CREAT", "O_EXCL"}

(***************************************************************************)
(* _make_filename: prefix + secrets.token_hex(nbytes).                     *)
(***************************************************************************)
HexChars ==
  <<"0", "1", "2", "3", "4", "5", "6", "7",
    "8", "9", "a", "b", "c", "d", "e", "f">>

\* Mutant: the low nibble of each byte comes first.
token_hex_LowNibbleFirst(bytes) ==
  [i \in 1..(2 * Len(bytes)) |->
     IF i % 2 = 1 THEN HexChars[(bytes[(i + 1) \div 2] % 16) + 1]
                  ELSE HexChars[(bytes[i \div 2] \div 16) + 1]]

\* secrets.token_hex: two hexadecimal characters for each byte, high nibble first.
token_hex(bytes) ==
  [i \in 1..(2 * Len(bytes)) |->
     IF i % 2 = 1 THEN HexChars[(bytes[(i + 1) \div 2] \div 16) + 1]
                  ELSE HexChars[(bytes[i \div 2] % 16) + 1]]

_SHM_NAME_PREFIX(posix) ==
  IF posix THEN <<"/", "p", "s", "m", "_">> ELSE <<"w", "n", "s", "m", "_">>

\* number of random bytes to use for name
nbytes(posix) == (_SHM_SAFE_NAME_LENGTH - Len(_SHM_NAME_PREFIX(posix))) \div 2

\* Mutant: the random bytes are not used, every name is the same.
_make_filename_Fixed(posix, bytes) ==
  _SHM_NAME_PREFIX(posix) \o token_hex([i \in 1..Len(bytes) |-> 0])

_make_filename(posix, bytes) == _SHM_NAME_PREFIX(posix) \o token_hex(bytes)

\* The values secrets.token_bytes(n) is drawn from in this model: NCand of the
\* 256^n byte strings.
RandDraws(n) == {[i \in 1..n |-> IF i = n THEN b ELSE 0] : b \in 0..(NCand - 1)}

Candidates(posix) == {_make_filename(posix, r) : r \in RandDraws(nbytes(posix))}

\* SharedMemory._prepend_leading_slash: True on POSIX.
_prepend_leading_slash(posix) == posix

\* The name the kernel sees for a caller-supplied name (line 81).
PosixName(posix, name) ==
  IF _prepend_leading_slash(posix) THEN <<"/">> \o name ELSE name

\* The name callers pass: one that the generator can draw too (without the
\* slash that the POSIX path prepends), so that caller-supplied and generated
\* names collide.
UserNames(posix) ==
  {IF posix THEN Tail(_make_filename(posix, [i \in 1..nbytes(posix) |-> 0]))
            ELSE _make_filename(posix, [i \in 1..nbytes(posix) |-> 0])}

KernelNames(posix) ==
  Candidates(posix) \cup
  {IF posix THEN PosixName(posix, n) ELSE n : n \in UserNames(posix)}

\* The size arguments callers pass: negative, zero, less than a page, a
\* page, and one too large for off_t; an attacher's size is read by the
\* argument checks only.
CreateSizes == {-1, 0, 3, PAGESIZE, OffTLimit}
AttachSizes == {-1, 0, PAGESIZE}
SizeArgs(create) == IF create THEN CreateSizes ELSE AttachSizes


(***************************************************************************)
(* State.                                                                  *)
(***************************************************************************)
VARIABLES
  USE_POSIX,  \* _USE_POSIX: the platform family, fixed for a behaviour
  ns,         \* the kernel namespace: name -> object id, NoObj when free
  objs,       \* the kernel objects ever created: id -> [size, data, ready]
  handles,    \* Windows, per process: its open handles and views, <<kind, id>>
  tracker,    \* names registered with the resource tracker
  pc,         \* per process: where its open() call, or its handle, stands
  self,       \* per process: the SharedMemory instance's fields
  loc,        \* per process: the locals of _SharedMemory_init
  hist,       \* per process: what the current call did (observation only)
  ncalls      \* open() calls made so far

vars == <<USE_POSIX, ns, objs, handles, tracker, pc, self, loc, hist, ncalls>>

\* The class attributes a new SharedMemory instance starts from.
NewSelf ==
  [_name |-> None, _fd |-> -1, _mmap |-> NoMap, _buf |-> FALSE,
   _flags |-> O_RDWR, _size |-> 0]

\* name, create, size: the arguments (name and size are reassigned by the
\* code); arg_name, arg_size: the arguments as passed; exc: the exception in
\* flight while a finally clause runs ("continue" for the loop's continue).
NewLoc ==
  [name |-> None, create |-> FALSE, size |-> 0, arg_name |-> None,
   arg_size |-> 0, temp_name |-> None, h_map |-> NoObj, p_buf |-> NoObj,
   exc |-> "none"]

\* When the call returns or raises its locals are gone; the arguments it was
\* given are kept for observation.
EndLoc(l) ==
  [NewLoc EXCEPT !.create = l.create, !.arg_name = l.arg_name,
                 !.arg_size = l.arg_size]

\* result: how the call ended; attempts: exclusive creations tried; oscalls:
\* whether any OS primitive was invoked; created: the object the call
\* created; late: the call opened an object whose creating call had
\* returned; wrote: the outcome of the last write through the handle's
\* buffer; registered: the calls of register the call made.
NewHist ==
  [result |-> "none", attempts |-> 0, oscalls |-> FALSE, created |-> NoObj,
   late |-> FALSE, wrote |-> "none", registered |-> 0]

Min(a, b) == IF a < b THEN a ELSE b

Kinds == {"h_map", "p_buf", "mmap"}

\* Windows: some handle or view of some process references object id.
Referenced(id, h) == \E q \in Procs, k \in Kinds : <<k, id>> \in h[q]

\* Windows: a named object lives as long as a handle or a view references it.
Reap(n, h) ==
  [nm \in DOMAIN n |->
     IF n[nm] # NoObj /\ ~Referenced(n[nm], h) THEN NoObj ELSE n[nm]]

\* size and data are the object's; ready records (for observation) that the
\* call which created the object has returned.
NewObject(size) == [size |-> size, data |-> 0, ready |-> FALSE]

\* The call of p returns: the object it created, if any, is ready.
Ready(o, p) ==
  IF hist[p].created # NoObj THEN [o EXCEPT ![hist[p].created].ready = TRUE]
  ELSE o

\* An object's storage is reclaimed once neither a name, a descriptor, a
\* handle nor a view references it.
\* (The instance of a call that raised is destroyed, and its descriptor
\* closed with it.)
Live(id, n, h, s, c) ==
  \/ \E nm \in DOMAIN n : n[nm] = id
  \/ Referenced(id, h)
  \/ \E q \in Procs : c[q] # "failed" /\ (s[q]._fd = id \/ s[q]._mmap.obj = id)

Collect(o, n, h, s, c) ==
  [id \in DOMAIN o |-> IF Live(id, n, h, s, c) THEN o[id] ELSE NewObject(0)]

Init ==
  /\ USE_POSIX \in BOOLEAN
  /\ ns = [nm \in KernelNames(USE_POSIX) |-> NoObj]
  /\ objs = << >>
  /\ handles = [p \in Procs |-> {}]
  /\ tracker = {}
  /\ pc = [p \in Procs |-> "idle"]
  /\ self = [p \in Procs |-> NewSelf]
  /\ loc = [p \in Procs |-> NewLoc]
  /\ hist = [p \in Procs |-> NewHist]
  /\ ncalls = 0

(***************************************************************************)
(* Lines 54-61: the argument checks.  The error kinds are those of the     *)
(* specification; in Python all three are ValueError.                      *)
(***************************************************************************)
FlagsAfterChecks(create, size) ==
  IF size >= 0 /\ create THEN _O_CREX \cup O_RDWR ELSE O_RDWR

\* Mutant: a zero size passes the checks of a creation.
CheckArgs_ZeroSizeAllowed(name, create, size) ==
  IF ~(size >= 0) THEN "InvalidSize"
  ELSE IF name = None /\ "O_EXCL" \notin FlagsAfterChecks(create, size)
       THEN "MissingName"
  ELSE "ok"

\* Mutant: the name is not checked.
CheckArgs_NoNameCheck(name, create, size) ==
  IF ~(size >= 0) THEN "InvalidSize"
  ELSE IF create /\ size = 0 THEN "InvalidSize"
  ELSE "ok"

CheckArgs(name, create, size) ==
  IF ~(size >= 0) THEN "InvalidSize"
  ELSE IF create /\ size = 0 THEN "InvalidSize"
  ELSE IF name = None /\ "O_EXCL" \notin FlagsAfterChecks(create, size)
       THEN "MissingName"
  ELSE "ok"

\* The first OS call of each branch.
FirstStep(posix, create) ==
  IF posix THEN "shm_open"
  ELSE IF create THEN "CreateFileMapping" ELSE "OpenFileMapping"

\* SharedMemory(name, create, size): a new instance, and the argument checks.
\* The instance of the process's previous call is dropped.
Open(p, name, create, size) ==
  /\ pc[p] \in {"idle", "failed", "closed"}
  /\ ncalls < MaxCalls
  /\ ncalls' = ncalls + 1
  /\ self' = [self EXCEPT ![p] =
                [NewSelf EXCEPT !._flags = FlagsAfterChecks(create, size)]]
  /\ LET err == CheckArgs(name, create, size)
         args == [NewLoc EXCEPT !.name = name, !.create = create,
                                !.size = size, !.arg_name = name,
                                !.arg_size = size]
     IN
       /\ loc' = [loc EXCEPT ![p] = IF err = "ok" THEN args ELSE EndLoc(args)]
       /\ hist' = [hist EXCEPT ![p] =
                     [NewHist EXCEPT !.result = IF err = "ok" THEN "none" ELSE err]]
       /\ pc' = [pc EXCEPT ![p] =
                   IF err = "ok" THEN FirstStep(USE_POSIX, create) ELSE "failed"]
  /\ objs' = Collect(objs, ns, handles, self', pc')
  /\ UNCHANGED <<USE_POSIX, ns, handles, tracker>>

\* The call of p ends with exception e; h is what the call did until then.
RaiseWith(p, e, h) ==
  /\ pc' = [pc EXCEPT ![p] = "failed"]
  /\ hist' = [hist EXCEPT ![p] = [h EXCEPT !.result = e, !.oscalls = TRUE]]
  /\ loc' = [loc EXCEPT ![p] = EndLoc(loc[p])]

Raise(p, e) == RaiseWith(p, e, hist[p])

\* The call of p returns: lines 161-162 record the size and the buffer; h
\* is what the call did until then.
ReturnWith(p, s, h) ==
  /\ self' = [s EXCEPT ![p]._size = loc[p].size, ![p]._buf = TRUE]
  /\ pc' = [pc EXCEPT ![p] = "mapped"]
  /\ hist' = [hist EXCEPT ![p] = [h EXCEPT !.result = "ok", !.oscalls = TRUE]]
  /\ loc' = [loc EXCEPT ![p] = EndLoc(loc[p])]

Return(p, s) == ReturnWith(p, s, hist[p])

\* One more exclusive creation was tried.
Tried(h) == [h EXCEPT !.oscalls = TRUE, !.attempts = Min(@ + 1, AttemptCap)]

(***************************************************************************)
(* POSIX shared memory, lines 67-99.                                       *)
(***************************************************************************)
AfterShmOpen(create, size) == IF create /\ size # 0 THEN "ftruncate" ELSE "fstat"

\* Mutant: O_EXCL is ignored, an existing object is opened.
shm_open_NoExcl(nm, flags) ==
  IF ns[nm] # NoObj THEN "open"
  ELSE IF "O_CREAT" \in flags THEN "create" ELSE "FileNotFoundError"

\* _posixshmem.shm_open(nm, flags): "create", "open", or the error raised.
shm_open(nm, flags) ==
  IF "O_CREAT" \in flags /\ "O_EXCL" \in flags
  THEN IF ns[nm] # NoObj THEN "FileExistsError" ELSE "create"
  ELSE IF ns[nm] # NoObj THEN "open" ELSE "FileNotFoundError"

\* shm_open has created a new, empty object under nm, or opened the one
\* there, and returned its descriptor (the model names a descriptor by the
\* object it refers to); lines 78 and 87 record the name.
ShmOpened(p, nm, how) ==
  LET id == IF how = "create" THEN Len(objs) + 1 ELSE ns[nm] IN
    /\ objs' = IF how = "create" THEN Append(objs, NewObject(0)) ELSE objs
    /\ ns' = [ns EXCEPT ![nm] = id]
    /\ self' = [self EXCEPT ![p]._fd = id, ![p]._name = nm]
    /\ loc' = [loc EXCEPT ![p].name = nm]
    /\ hist' = [hist EXCEPT ![p] =
                  IF how = "create" THEN [Tried(@) EXCEPT !.created = id]
                  ELSE [@ EXCEPT !.oscalls = TRUE, !.late = objs[id].ready]]
    /\ pc' = [pc EXCEPT ![p] = AfterShmOpen(loc[p].create, loc[p].size)]

\* Lines 67-79: name is None: draw candidates until one is free.
ShmOpenGenerated(p) ==
  /\ pc[p] = "shm_open" /\ loc[p].name = None
  /\ \E r \in RandDraws(nbytes(USE_POSIX)) :
       LET nm == _make_filename(USE_POSIX, r)
           how == shm_open(nm, self[p]._flags)
       IN
         CASE how = "FileExistsError" ->       \* continue
                /\ hist' = [hist EXCEPT ![p] = Tried(@)]
                /\ UNCHANGED <<ns, objs, self, loc, pc>>
           [] how = "FileNotFoundError" ->
                /\ Raise(p, how)
                /\ UNCHANGED <<ns, objs, self>>
           [] OTHER -> ShmOpened(p, nm, how)
  /\ UNCHANGED <<USE_POSIX, handles, tracker, ncalls>>

\* Lines 80-87: a caller-supplied name, created exclusively or opened.
ShmOpenNamed(p) ==
  /\ pc[p] = "shm_open" /\ loc[p].name # None
  /\ LET nm == PosixName(USE_POSIX, loc[p].name)
         how == shm_open(nm, self[p]._flags)
     IN
       CASE how = "FileExistsError" ->
              /\ RaiseWith(p, how, Tried(hist[p]))
              /\ UNCHANGED <<ns, objs, self>>
         [] how = "FileNotFoundError" ->
              /\ Raise(p, how)
              /\ UNCHANGED <<ns, objs, self>>
         [] OTHER -> ShmOpened(p, nm, how)
  /\ UNCHANGED <<USE_POSIX, handles, tracker, ncalls>>

\* SharedMemory.unlink (the library's, called on line 95 and by users):
\* shm_unlink(self._name), then unregister(self._name, "shared_memory").
\* Gives the kernel namespace and the tracker after the call, and whether
\* shm_unlink raised FileNotFoundError (nothing is unregistered then).
UnlinkMissing(posix, name, n) == posix /\ name # None /\ n[name] = NoObj

UnlinkNs(posix, name, n) ==
  IF posix /\ name # None /\ n[name] # NoObj THEN [n EXCEPT ![name] = NoObj] ELSE n

UnlinkTracker(posix, name, n, t) ==
  IF posix /\ name # None /\ n[name] # NoObj THEN t \ {name} ELSE t

\* Line 90: os.ftruncate(self._fd, size).  A size that off_t cannot hold
\* raises OverflowError, which is no OSError.
Ftruncate(p) ==
  /\ pc[p] = "ftruncate"
  /\ \/ /\ loc[p].size >= OffTLimit
        /\ Raise(p, "OverflowError")
        /\ objs' = Collect(objs, ns, handles, self, pc')
     \/ /\ loc[p].size < OffTLimit
        /\ objs' = [objs EXCEPT ![self[p]._fd].size = loc[p].size]
        /\ pc' = [pc EXCEPT ![p] = "fstat"]
        /\ UNCHANGED <<loc, hist>>
     \/ /\ loc[p].size < OffTLimit
        /\ loc' = [loc EXCEPT ![p].exc = "OSError"]
        /\ pc' = [pc EXCEPT ![p] = "unlink"]
        /\ UNCHANGED <<objs, hist>>
  /\ UNCHANGED <<USE_POSIX, ns, handles, tracker, self, ncalls>>

\* Mutant: the size the caller passed is trusted, the object's is not read.
Fstat_TrustCaller(p) ==
  /\ pc[p] = "fstat"
  /\ pc' = [pc EXCEPT ![p] = "mmap"]
  /\ UNCHANGED <<USE_POSIX, ns, objs, handles, tracker, self, loc, hist, ncalls>>

\* Lines 91-92: size = os.fstat(self._fd).st_size.
Fstat(p) ==
  /\ pc[p] = "fstat"
  /\ \/ /\ loc' = [loc EXCEPT ![p].size = objs[self[p]._fd].size]
        /\ pc' = [pc EXCEPT ![p] = "mmap"]
     \/ /\ loc' = [loc EXCEPT ![p].exc = "OSError"]
        /\ pc' = [pc EXCEPT ![p] = "unlink"]
  /\ UNCHANGED <<USE_POSIX, ns, objs, handles, tracker, self, hist, ncalls>>

\* mmap.mmap(fd, length): a length of 0 maps the whole file as it is now.
\* The length of the mapping, or 0 when mmap raises ValueError: the file is
\* empty, or shorter than the length.
MmapLength(length, st_size) ==
  IF length = 0 THEN st_size
  ELSE IF length > st_size THEN 0 ELSE length

\* Line 93: self._mmap = mmap.mmap(self._fd, size).  ValueError is no
\* OSError.
PosixMmap(p) ==
  /\ pc[p] = "mmap"
  /\ LET len == MmapLength(loc[p].size, objs[self[p]._fd].size) IN
       \/ /\ len = 0
          /\ Raise(p, "ValueError")
          /\ objs' = Collect(objs, ns, handles, self, pc')
          /\ UNCHANGED self
       \/ /\ len # 0
          /\ self' = [self EXCEPT ![p]._mmap =
                        [obj |-> self[p]._fd, len |-> len, access |-> "w"]]
          /\ pc' = [pc EXCEPT ![p] = "register"]
          /\ UNCHANGED <<objs, loc, hist>>
       \/ /\ len # 0
          /\ loc' = [loc EXCEPT ![p].exc = "OSError"]
          /\ pc' = [pc EXCEPT ![p] = "unlink"]
          /\ UNCHANGED <<objs, self, hist>>
  /\ UNCHANGED <<USE_POSIX, ns, handles, tracker, ncalls>>

\* Lines 94-96: except OSError: self.unlink(); raise.
UnlinkOnError(p) ==
  /\ pc[p] = "unlink"
  /\ ns' = UnlinkNs(USE_POSIX, self[p]._name, ns)
  /\ tracker' = UnlinkTracker(USE_POSIX, self[p]._name, ns, tracker)
  /\ Raise(p, IF UnlinkMissing(USE_POSIX, self[p]._name, ns)
              THEN "FileNotFoundError" ELSE loc[p].exc)
  /\ objs' = Collect(objs, ns', handles, self, pc')
  /\ UNCHANGED <<USE_POSIX, handles, self, ncalls>>

\* Lines 98-99 and 161-162: register(self._name, "shared_memory"), then the
\* size and the buffer are recorded.
Register(p) ==
  /\ pc[p] = "register"
  /\ tracker' = tracker \cup {self[p]._name}
  /\ ReturnWith(p, self, [hist[p] EXCEPT !.registered = @ + 1])
  /\ objs' = Ready(objs, p)
  /\ UNCHANGED <<USE_POSIX, ns, handles, ncalls>>

(***************************************************************************)
(* Windows named shared memory, creation: lines 105-134.                   *)
(***************************************************************************)
\* Lines 114-115: the size goes to CreateFileMapping as two DWORDs.
dwMaximumSizeHigh(size) == (size \div DWord) % DWord
dwMaximumSizeLow(size) == size % DWord
MappingSize(size) == dwMaximumSizeHigh(size) * DWord + dwMaximumSizeLow(size)

\* mmap.mmap(-1, size, tagname=tag): the mapping named tag is opened when
\* it exists and created when it does not, and a view of it is mapped.
\* The object the view is of, the namespace and the objects afterwards.
TaggedObj(tag) == IF ns[tag] # NoObj THEN ns[tag] ELSE Len(objs) + 1
TaggedNs(tag) == IF ns[tag] # NoObj THEN ns ELSE [ns EXCEPT ![tag] = Len(objs) + 1]
TaggedObjs(tag, size) ==
  IF ns[tag] # NoObj THEN objs ELSE Append(objs, NewObject(size))

\* Mutant: a collision on a generated name is raised too.
CollisionExc_AlwaysRaise(name) == "FileExistsError"

\* Mutant: ERROR_ALREADY_EXISTS is ignored.
CollisionExc_Ignored(name) == "none"

\* Lines 120-129: GetLastError() is ERROR_ALREADY_EXISTS: a caller-supplied
\* name raises FileExistsError, a generated one makes the loop continue.
CollisionExc(name) == IF name # None THEN "FileExistsError" ELSE "continue"

\* Lines 107-129: one candidate, CreateFileMapping and GetLastError.  An
\* existing mapping is opened, ERROR_ALREADY_EXISTS tells it from a new one.
WinCreateFileMapping(p) ==
  /\ pc[p] = "CreateFileMapping"
  /\ \E r \in RandDraws(nbytes(USE_POSIX)) :
       LET temp_name == IF loc[p].name = None THEN _make_filename(USE_POSIX, r)
                        ELSE loc[p].name
           existed == ns[temp_name] # NoObj
           h_map == IF existed THEN ns[temp_name] ELSE Len(objs) + 1
           exc == IF existed THEN CollisionExc(loc[p].name) ELSE "none"
       IN
         \/ /\ Raise(p, "OSError")
            /\ UNCHANGED <<ns, objs, handles>>
         \/ /\ objs' = IF existed THEN objs
                       ELSE Append(objs, NewObject(MappingSize(loc[p].size)))
            /\ ns' = [ns EXCEPT ![temp_name] = h_map]
            /\ handles' = [handles EXCEPT ![p] = @ \cup {<<"h_map", h_map>>}]
            /\ loc' = [loc EXCEPT ![p].temp_name = temp_name,
                                  ![p].h_map = h_map, ![p].exc = exc]
            /\ hist' = [hist EXCEPT ![p] =
                          IF existed THEN Tried(@)
                          ELSE [Tried(@) EXCEPT !.created = h_map]]
            /\ pc' = [pc EXCEPT ![p] =
                        IF exc = "none" THEN "create_mmap" ELSE "CloseHandle"]
  /\ UNCHANGED <<USE_POSIX, tracker, self, ncalls>>

\* The access of the creator's view (line 130): mmap.ACCESS_READ.
CreateAccess == "r"

\* Mutant: the reservation handle is closed before the view is mapped.
WinCreateMmap_HandleClosedFirst(p) ==
  /\ pc[p] = "create_mmap"
  /\ LET h == [handles EXCEPT ![p] = @ \ {<<"h_map", loc[p].h_map>>}]
         n == Reap(ns, h)
         tag == loc[p].temp_name
         id == IF n[tag] # NoObj THEN n[tag] ELSE Len(objs) + 1
     IN
       /\ self' = [self EXCEPT ![p]._mmap =
                     [obj |-> id, len |-> loc[p].size, access |-> CreateAccess]]
       /\ handles' = [h EXCEPT ![p] = @ \cup {<<"mmap", id>>}]
       /\ ns' = [n EXCEPT ![tag] = id]
       /\ objs' = IF n[tag] # NoObj THEN objs
                  ELSE Append(objs, NewObject(loc[p].size))
  /\ pc' = [pc EXCEPT ![p] = "CloseHandle"]
  /\ UNCHANGED <<USE_POSIX, tracker, loc, hist, ncalls>>

\* Line 130: self._mmap = mmap.mmap(-1, size, tagname=temp_name,
\* access=mmap.ACCESS_READ).  A size Py_ssize_t cannot hold raises
\* OverflowError.
WinCreateMmap(p) ==
  /\ pc[p] = "create_mmap"
  /\ \/ /\ loc[p].size >= OffTLimit
        /\ loc' = [loc EXCEPT ![p].exc = "OverflowError"]
        /\ UNCHANGED <<ns, objs, handles, self>>
     \/ /\ loc[p].size < OffTLimit
        /\ loc' = [loc EXCEPT ![p].exc = "OSError"]
        /\ UNCHANGED <<ns, objs, handles, self>>
     \/ /\ loc[p].size < OffTLimit
        /\ self' = [self EXCEPT ![p]._mmap =
                      [obj |-> TaggedObj(loc[p].temp_name), len |-> loc[p].size,
                       access |-> CreateAccess]]
        /\ handles' = [handles EXCEPT ![p] =
                         @ \cup {<<"mmap", TaggedObj(loc[p].temp_name)>>}]
        /\ ns' = TaggedNs(loc[p].temp_name)
        /\ objs' = TaggedObjs(loc[p].temp_name, loc[p].size)
        /\ UNCHANGED loc
  /\ pc' = [pc EXCEPT ![p] = "CloseHandle"]
  /\ UNCHANGED <<USE_POSIX, tracker, hist, ncalls>>

\* Lines 131-134 and 161-162: finally: CloseHandle(h_map); then the loop
\* continues, the exception propagates, or the name, the size and the
\* buffer are recorded.
FinishCreate(p, h) ==
  /\ pc[p] = "CloseHandle"
  /\ handles' = h
  /\ CASE loc[p].exc = "continue" ->
            /\ pc' = [pc EXCEPT ![p] = "CreateFileMapping"]
            /\ loc' = [loc EXCEPT ![p].h_map = NoObj, ![p].exc = "none",
                                  ![p].temp_name = None]
            /\ UNCHANGED <<self, hist>>
       [] loc[p].exc = "none" ->
            Return(p, [self EXCEPT ![p]._name = loc[p].temp_name])
       [] OTHER ->
            /\ Raise(p, loc[p].exc)
            /\ UNCHANGED self
  /\ ns' = Reap(ns, handles')
  /\ objs' = Collect(IF loc[p].exc = "none" THEN Ready(objs, p) ELSE objs,
                     ns', handles', self', pc')
  /\ UNCHANGED <<USE_POSIX, tracker, ncalls>>

\* Mutant: the reservation handle is never closed.
WinCreateCloseHandle_NoClose(p) == FinishCreate(p, handles)

WinCreateCloseHandle(p) ==
  FinishCreate(p, [handles EXCEPT ![p] = @ \ {<<"h_map", loc[p].h_map>>}])

(***************************************************************************)
(* Windows named shared memory, attaching: lines 136-160.                  *)
(***************************************************************************)
\* Lines 137-144: self._name = name; h_map = OpenFileMapping(FILE_MAP_READ,
\* False, name).
WinOpenFileMapping(p) ==
  /\ pc[p] = "OpenFileMapping"
  /\ self' = [self EXCEPT ![p]._name = loc[p].name]
  /\ \/ /\ loc[p].name \notin DOMAIN ns
        /\ Raise(p, "TypeError")
        /\ UNCHANGED handles
     \/ /\ loc[p].name \in DOMAIN ns
        /\ ns[loc[p].name] = NoObj
        /\ Raise(p, "FileNotFoundError")
        /\ UNCHANGED handles
     \/ /\ loc[p].name \in DOMAIN ns
        /\ ns[loc[p].name] # NoObj
        /\ Raise(p, "OSError")
        /\ UNCHANGED handles
     \/ /\ loc[p].name \in DOMAIN ns
        /\ ns[loc[p].name] # NoObj
        /\ loc' = [loc EXCEPT ![p].h_map = ns[loc[p].name]]
        /\ handles' = [handles EXCEPT ![p] = @ \cup {<<"h_map", ns[loc[p].name]>>}]
        /\ hist' = [hist EXCEPT ![p].oscalls = TRUE,
                                  ![p].late = objs[ns[loc[p].name]].ready]
        /\ pc' = [pc EXCEPT ![p] = "MapViewOfFile"]
  /\ UNCHANGED <<USE_POSIX, ns, objs, tracker, ncalls>>

\* Lines 146-153: p_buf = MapViewOfFile(h_map, FILE_MAP_READ, 0, 0, 0).
WinMapViewOfFile(p) ==
  /\ pc[p] = "MapViewOfFile"
  /\ \/ /\ loc' = [loc EXCEPT ![p].p_buf = loc[p].h_map]
        /\ handles' = [handles EXCEPT ![p] = @ \cup {<<"p_buf", loc[p].h_map>>}]
     \/ /\ loc' = [loc EXCEPT ![p].exc = "OSError"]
        /\ UNCHANGED handles
  /\ pc' = [pc EXCEPT ![p] = "attach_CloseHandle"]
  /\ UNCHANGED <<USE_POSIX, ns, objs, tracker, self, hist, ncalls>>

\* Mutant: no finally, the handle is closed only when MapViewOfFile
\* succeeded.
WinAttachCloseHandle_NoFinally(p) ==
  /\ pc[p] = "attach_CloseHandle"
  /\ handles' = IF loc[p].exc = "none"
                THEN [handles EXCEPT ![p] = @ \ {<<"h_map", loc[p].h_map>>}]
                ELSE handles
  /\ IF loc[p].exc = "none"
     THEN /\ pc' = [pc EXCEPT ![p] = "VirtualQuerySize"]
          /\ loc' = [loc EXCEPT ![p].h_map = NoObj]
          /\ UNCHANGED hist
     ELSE Raise(p, loc[p].exc)
  /\ ns' = Reap(ns, handles')
  /\ objs' = Collect(objs, ns', handles', self, pc')
  /\ UNCHANGED <<USE_POSIX, tracker, self, ncalls>>

\* Lines 154-155: finally: CloseHandle(h_map).
WinAttachCloseHandle(p) ==
  /\ pc[p] = "attach_CloseHandle"
  /\ handles' = [handles EXCEPT ![p] = @ \ {<<"h_map", loc[p].h_map>>}]
  /\ IF loc[p].exc = "none"
     THEN /\ pc' = [pc EXCEPT ![p] = "VirtualQuerySize"]
          /\ loc' = [loc EXCEPT ![p].h_map = NoObj]
          /\ UNCHANGED hist
     ELSE Raise(p, loc[p].exc)
  /\ ns' = Reap(ns, handles')
  /\ objs' = Collect(objs, ns', handles', self, pc')
  /\ UNCHANGED <<USE_POSIX, tracker, self, ncalls>>

\* The size of the region of a view: the mapping's size in whole pages.
RegionSize(size) == ((size + PAGESIZE - 1) \div PAGESIZE) * PAGESIZE

\* Line 157: size = _winapi.VirtualQuerySize(p_buf).
WinVirtualQuerySize(p) ==
  /\ pc[p] = "VirtualQuerySize"
  /\ \/ /\ loc' = [loc EXCEPT ![p].size = RegionSize(objs[loc[p].p_buf].size)]
        /\ pc' = [pc EXCEPT ![p] = "attach_mmap"]
     \/ /\ loc' = [loc EXCEPT ![p].exc = "OSError"]
        /\ pc' = [pc EXCEPT ![p] = "UnmapViewOfFile"]
  /\ UNCHANGED <<USE_POSIX, ns, objs, handles, tracker, self, hist, ncalls>>

\* Line 158: self._mmap = mmap.mmap(-1, size, tagname=name).
AttachMmap(p, h) ==
  /\ pc[p] = "attach_mmap"
  /\ \/ /\ loc[p].size >= OffTLimit
        /\ loc' = [loc EXCEPT ![p].exc = "OverflowError"]
        /\ handles' = h
        /\ UNCHANGED <<ns, objs, self>>
     \/ /\ loc[p].size < OffTLimit
        /\ loc' = [loc EXCEPT ![p].exc = "OSError"]
        /\ handles' = h
        /\ UNCHANGED <<ns, objs, self>>
     \/ /\ loc[p].size < OffTLimit
        /\ self' = [self EXCEPT ![p]._mmap =
                      [obj |-> TaggedObj(loc[p].name), len |-> loc[p].size,
                       access |-> "w"]]
        /\ handles' = [h EXCEPT ![p] = @ \cup {<<"mmap", TaggedObj(loc[p].name)>>}]
        /\ ns' = TaggedNs(loc[p].name)
        /\ objs' = TaggedObjs(loc[p].name, loc[p].size)
        /\ UNCHANGED loc
  /\ pc' = [pc EXCEPT ![p] = "UnmapViewOfFile"]
  /\ UNCHANGED <<USE_POSIX, tracker, hist, ncalls>>

\* Mutant: the probe view is unmapped before the persistent view is opened.
WinAttachMmap_UnmapFirst(p) ==
  AttachMmap(p, [handles EXCEPT ![p] = @ \ {<<"p_buf", loc[p].p_buf>>}])

WinAttachMmap(p) == AttachMmap(p, handles)

\* Lines 159-162: finally: UnmapViewOfFile(p_buf); then the exception
\* propagates, or the size and the buffer are recorded.
WinUnmapViewOfFile(p) ==
  /\ pc[p] = "UnmapViewOfFile"
  /\ handles' = [handles EXCEPT ![p] = @ \ {<<"p_buf", loc[p].p_buf>>}]
  /\ IF loc[p].exc = "none"
     THEN Return(p, self)
     ELSE /\ Raise(p, loc[p].exc)
          /\ UNCHANGED self
  /\ ns' = Reap(ns, handles')
  /\ objs' = Collect(objs, ns', handles', self', pc')
  /\ UNCHANGED <<USE_POSIX, tracker, ncalls>>

(***************************************************************************)
(* What callers do with a mapped handle: write through its buffer, close   *)
(* it (unmap) and unlink it (delete).  close and unlink are the library's  *)
(* methods, which the patch leaves as they are.                            *)
(***************************************************************************)
\* shm.buf[0:5] = b"hello": a read-only view raises TypeError.
Write(p) ==
  /\ pc[p] = "mapped"
  /\ IF self[p]._mmap.access = "w"
     THEN /\ objs' = [objs EXCEPT ![self[p]._mmap.obj].data = 1]
          /\ UNCHANGED hist
     ELSE /\ hist' = [hist EXCEPT ![p].wrote = "TypeError"]
          /\ UNCHANGED objs
  /\ UNCHANGED <<USE_POSIX, ns, handles, tracker, pc, self, loc, ncalls>>

\* SharedMemory.close: the buffer is released, the mmap closed (its view
\* unmapped and its handle closed) and, on POSIX, the descriptor closed.
Close(p) ==
  /\ pc[p] = "mapped"
  /\ self' = [self EXCEPT ![p]._buf = FALSE, ![p]._mmap = NoMap, ![p]._fd = -1]
  /\ handles' = [handles EXCEPT ![p] = @ \ {<<"mmap", self[p]._mmap.obj>>}]
  /\ pc' = [pc EXCEPT ![p] = "closed"]
  /\ ns' = IF USE_POSIX THEN ns ELSE Reap(ns, handles')
  /\ objs' = Collect(objs, ns', handles', self', pc')
  /\ UNCHANGED <<USE_POSIX, tracker, loc, hist, ncalls>>

\* SharedMemory.unlink, called on a closed handle: on POSIX shm_unlink and
\* unregister; nothing on Windows.
Unlink(p) ==
  /\ pc[p] = "closed"
  /\ ns' = UnlinkNs(USE_POSIX, self[p]._name, ns)
  /\ tracker' = UnlinkTracker(USE_POSIX, self[p]._name, ns, tracker)
  /\ objs' = Collect(objs, ns', handles, self, pc)
  /\ UNCHANGED <<USE_POSIX, handles, pc, self, loc, hist, ncalls>>

Next ==
  \/ \E p \in Procs, create \in BOOLEAN :
       \E size \in SizeArgs(create), name \in UserNames(USE_POSIX) \cup {None} :
         Open(p, name, create, size)
  \/ \E p \in Procs : ShmOpenGenerated(p)
  \/ \E p \in Procs : ShmOpenNamed(p)
  \/ \E p \in Procs : Ftruncate(p)
  \/ \E p \in Procs : Fstat(p)
  \/ \E p \in Procs : PosixMmap(p)
  \/ \E p \in Procs : UnlinkOnError(p)
  \/ \E p \in Procs : Register(p)
  \/ \E p \in Procs : WinCreateFileMapping(p)
  \/ \E p \in Procs : WinCreateMmap(p)
  \/ \E p \in Procs : WinCreateCloseHandle(p)
  \/ \E p \in Procs : WinOpenFileMapping(p)
  \/ \E p \in Procs : WinMapViewOfFile(p)
  \/ \E p \in Procs : WinAttachCloseHandle(p)
  \/ \E p \in Procs : WinVirtualQuerySize(p)
  \/ \E p \in Procs : WinAttachMmap(p)
  \/ \E p \in Procs : WinUnmapViewOfFile(p)
  \/ \E p \in Procs : Write(p)
  \/ \E p \in Procs : Close(p)
  \/ \E p \in Procs : Unlink(p)

Spec == Init /\ [][Next]_vars

(***************************************************************************)
(* Properties.                                                             *)
(***************************************************************************)
Ended(p) == pc[p] \in {"failed", "mapped", "closed"}

\* The handles and views process p holds on object id.
Holds(p, id) == \E k \in Kinds : <<k, id>> \in handles[p]

\* Some process other than p holds a handle or a view on object id.
HeldByOther(p, id) == \E q \in Procs \ {p} : Holds(q, id)

\* C1: on Windows, once a handle is closed its process holds no handle and
\* no view any more; and when no other process holds one either, whether p
\* has closed its handle or is about to reserve a name again, every name is
\* free, so that the exclusive creation finds no existing object.
C1_LeakRegression ==
  ~USE_POSIX =>
    \A p \in Procs :
      /\ pc[p] = "closed" => handles[p] = {}
      /\ (/\ pc[p] \in {"closed", "CreateFileMapping"}
          /\ \A q \in Procs \ {p} : handles[q] = {})
         => \A nm \in DOMAIN ns : ns[nm] = NoObj

\* A handle that was created, mapped and closed on Windows, with the name free again.
C1_Witness ==
  \E p \in Procs :
    /\ ~USE_POSIX /\ pc[p] = "closed" /\ loc[p].create
    /\ hist[p].result = "ok" /\ hist[p].created # NoObj
    /\ ns[self[p]._name] = NoObj

\* C2: when open(create=True) has failed, the object that call created is
\* no longer in the namespace.
C2_NoOrphanAfterFailedCreate ==
  \A p \in Procs :
    (pc[p] = "failed" /\ loc[p].create /\ hist[p].created # NoObj)
      => \A nm \in DOMAIN ns : ns[nm] # hist[p].created

\* The original statement of C3: on the Windows attach path the probe view
\* is unmapped before the persistent view is opened, so the two never exist
\* together.
C3_ProbeUnmappedBeforePersistentView ==
  \A p \in Procs :
    (~USE_POSIX /\ ~loc[p].create /\ self[p]._mmap # NoMap)
      => \A id \in DOMAIN objs : <<"p_buf", id>> \notin handles[p]

\* C3, amended: on the Windows attach path the probe view is still mapped
\* when the persistent view is opened and is unmapped after it (also when
\* VirtualQuerySize or the mmap failed), before open returns or raises.
C3_ProbeUnmappedAfterPersistentView ==
  \A p \in Procs :
    ~USE_POSIX =>
      /\ pc[p] \in {"VirtualQuerySize", "attach_mmap", "UnmapViewOfFile"}
           => /\ loc[p].p_buf # NoObj
              /\ <<"p_buf", loc[p].p_buf>> \in handles[p]
      /\ (pc[p] = "UnmapViewOfFile" /\ loc[p].exc = "none")
           => self[p]._mmap.obj = loc[p].p_buf
      /\ Ended(p) => \A id \in DOMAIN objs : <<"p_buf", id>> \notin handles[p]

\* The persistent view is open and the probe view not yet unmapped.
C3_Witness ==
  \E p \in Procs :
    /\ ~USE_POSIX /\ pc[p] = "UnmapViewOfFile" /\ loc[p].exc = "none"
    /\ self[p]._mmap # NoMap
    /\ <<"p_buf", loc[p].p_buf>> \in handles[p]

\* C4: on Windows the view a successful open(create=True) leaves is
\* writable: the creator's write through the buffer does not fail.
C4_CreatorViewWritable ==
  \A p \in Procs :
    (~USE_POSIX /\ pc[p] = "mapped" /\ loc[p].create)
      => /\ self[p]._mmap.access = "w"
         /\ hist[p].wrote # "TypeError"

\* The call checks its arguments and does nothing else: no name is reserved
\* or removed, no handle opened or closed, nothing registered.
OpenTouchesNoKernelState ==
  ncalls' # ncalls => (ns' = ns /\ handles' = handles /\ tracker' = tracker)

\* C5: open(name, create=True, size) with size <= 0 fails with InvalidSize
\* without any OS call: the call holds no descriptor, handle or view, has
\* created nothing, and left the namespace and the handles as they were.
C5_InvalidSizeBeforeAnyOsCall ==
  /\ [](\A p \in Procs :
          (pc[p] # "idle" /\ loc[p].create /\ loc[p].arg_size <= 0)
            => /\ pc[p] = "failed"
               /\ hist[p].result = "InvalidSize"
               /\ ~hist[p].oscalls
               /\ hist[p].created = NoObj
               /\ self[p]._fd = -1 /\ self[p]._mmap = NoMap
               /\ handles[p] = {})
  /\ [][OpenTouchesNoKernelState]_vars

\* A creation with size 0 and no name was refused, while an object exists.
C5_Witness ==
  \E p \in Procs :
    /\ pc[p] = "failed" /\ loc[p].create /\ loc[p].arg_size = 0
    /\ loc[p].arg_name = None /\ hist[p].result = "InvalidSize"
    /\ \E nm \in DOMAIN ns : ns[nm] # NoObj

\* The original statement of C6: open(name=None, create=False, size) fails
\* with MissingName whatever the size.
C6_MissingNameWhateverSize ==
  \A p \in Procs :
    (pc[p] # "idle" /\ ~loc[p].create /\ loc[p].arg_name = None)
      => hist[p].result = "MissingName"

\* C6, amended: open(name=None, create=False, size) fails without any OS
\* call, with MissingName when size >= 0 and with InvalidSize when size < 0.
C6_MissingNameUnlessNegativeSize ==
  /\ [](\A p \in Procs :
          (pc[p] # "idle" /\ ~loc[p].create /\ loc[p].arg_name = None)
            => /\ pc[p] = "failed"
               /\ hist[p].result =
                    IF loc[p].arg_size >= 0 THEN "MissingName" ELSE "InvalidSize"
               /\ ~hist[p].oscalls
               /\ self[p]._fd = -1 /\ self[p]._mmap = NoMap
               /\ handles[p] = {})
  /\ [][OpenTouchesNoKernelState]_vars

\* An attach without a name and with a positive size was refused.
C6_Witness ==
  \E p \in Procs :
    /\ pc[p] = "failed" /\ ~loc[p].create /\ loc[p].arg_name = None
    /\ loc[p].arg_size > 0 /\ hist[p].result = "MissingName"

\* The name the kernel sees for the name held in the call's variable name.
KernelName(p) == PosixName(USE_POSIX, loc[p].name)

\* The call of p is a creation under a caller-supplied name and stands
\* before its exclusive-creation primitive.
ExplicitAttempt(p) ==
  /\ pc[p] \in {"shm_open", "CreateFileMapping"}
  /\ loc[p].create /\ loc[p].name # None

\* Objects that a process other than p references, and their names, are the
\* same after the step.
OthersObjectsKept(p) ==
  /\ \A q \in Procs \ {p} : handles'[q] = handles[q]
  /\ \A id \in DOMAIN objs :
       HeldByOther(p, id) =>
         /\ objs'[id] = objs[id]
         /\ \A nm \in DOMAIN ns : ns[nm] = id => ns'[nm] = id

\* The exclusive-creation primitive of an explicit-name creation finds the
\* name taken: nothing is created, changed, unlinked or registered, and the
\* call fails with FileExistsError (on Windows after closing the handle it
\* got, unless CreateFileMapping itself failed).
C7_CollisionStep ==
  \A p \in Procs :
    (ExplicitAttempt(p) /\ ns[KernelName(p)] # NoObj /\ pc'[p] # pc[p]) =>
      /\ ns' = ns /\ objs' = objs /\ tracker' = tracker
      /\ hist'[p].created = NoObj
      /\ IF USE_POSIX
         THEN /\ pc'[p] = "failed" /\ hist'[p].result = "FileExistsError"
              /\ hist'[p].attempts = 1
              /\ handles' = handles
         ELSE \/ /\ pc'[p] = "CloseHandle" /\ loc'[p].exc = "FileExistsError"
                 /\ hist'[p].attempts = 1
              \/ /\ pc'[p] = "failed" /\ hist'[p].result = "OSError"
                 /\ handles' = handles

\* Windows: the finally clause of a collided explicit-name creation closes
\* the handle CreateFileMapping returned and touches nothing another
\* process references.
C7_CloseStep ==
  \A p \in Procs :
    (/\ ~USE_POSIX /\ pc[p] = "CloseHandle"
     /\ loc[p].exc = "FileExistsError" /\ pc'[p] # pc[p]) =>
      /\ pc'[p] = "failed" /\ hist'[p].result = "FileExistsError"
      /\ handles'[p] = handles[p] \ {<<"h_map", loc[p].h_map>>}
      /\ OthersObjectsKept(p)
      /\ tracker' = tracker

\* C7: open(create=True) with a caller-supplied name that is taken makes one
\* exclusive-creation attempt and fails with FileExistsError, without retry;
\* the existing object keeps its name, size and bytes and is not unlinked,
\* and on Windows the handle CreateFileMapping returned for it is closed.
C7_ExplicitNameCollision ==
  /\ [](\A p \in Procs :
          /\ (loc[p].create /\ loc[p].arg_name # None) => hist[p].attempts <= 1
          /\ (pc[p] = "failed" /\ hist[p].result = "FileExistsError")
               => /\ loc[p].create /\ loc[p].arg_name # None
                  /\ hist[p].attempts = 1 /\ hist[p].created = NoObj
                  /\ self[p]._fd = -1 /\ self[p]._mmap = NoMap
                  /\ handles[p] = {})
  /\ [][C7_CollisionStep /\ C7_CloseStep]_vars

\* A creation under a taken caller-supplied name has failed with
\* FileExistsError; the object of the first creator is still there, under
\* its name and with the size it was created with.
C7_Witness ==
  \E p \in Procs, q \in Procs :
    /\ p # q
    /\ pc[p] = "failed" /\ hist[p].result = "FileExistsError"
    /\ pc[q] = "mapped" /\ loc[q].create /\ loc[q].arg_name = loc[p].arg_name
    /\ ns[self[q]._name] = hist[q].created
    /\ objs[hist[q].created].size = loc[q].arg_size

\* The call of p is a creation with the name omitted.
GeneratedCreate(p) == loc[p].create /\ loc[p].arg_name = None

\* A candidate of a creation with the name omitted collides: the call stays
\* in its loop, and nothing is created, changed, unlinked or registered (on
\* Windows the call holds a handle on the existing object until the finally
\* clause, and then draws again).
C8_CollisionStep ==
  \A p \in Procs :
    (/\ pc[p] \in {"shm_open", "CreateFileMapping"} /\ GeneratedCreate(p)
     /\ (pc'[p] # pc[p] \/ hist'[p] # hist[p])
     /\ hist'[p].created = NoObj) =>
      /\ ns' = ns /\ objs' = objs /\ tracker' = tracker
      /\ IF USE_POSIX
         THEN pc'[p] = "shm_open" /\ handles' = handles /\ self' = self
         ELSE \/ pc'[p] = "CloseHandle" /\ loc'[p].exc = "continue"
              \/ /\ pc'[p] = "failed" /\ hist'[p].result = "OSError"
                 /\ handles' = handles

C8_CloseStep ==
  \A p \in Procs :
    (/\ ~USE_POSIX /\ pc[p] = "CloseHandle"
     /\ loc[p].exc = "continue" /\ pc'[p] # pc[p]) =>
      /\ pc'[p] = "CreateFileMapping" /\ loc'[p].name = None
      /\ handles'[p] = {}
      /\ OthersObjectsKept(p)
      /\ tracker' = tracker /\ self' = self

\* C8: open(create=True) with the name omitted never fails with
\* FileExistsError: a collision on a candidate makes the loop draw again,
\* leaving the existing object as it is (on Windows the handle on it is closed
\* before the next attempt), and the handle returned is bound to the
\* candidate whose exclusive creation succeeded.
C8_GeneratedNameCollision ==
  /\ [](\A p \in Procs :
          GeneratedCreate(p) =>
            /\ hist[p].result # "FileExistsError"
            /\ loc[p].exc # "FileExistsError"
            /\ pc[p] = "mapped" =>
                 /\ self[p]._name \in Candidates(USE_POSIX)
                 /\ hist[p].created # NoObj
                 /\ self[p]._mmap.obj = hist[p].created
                 /\ USE_POSIX => self[p]._fd = hist[p].created
                 /\ ~USE_POSIX => ns[self[p]._name] = hist[p].created)
  /\ [][C8_CollisionStep /\ C8_CloseStep]_vars

\* A creation with the name omitted collided, drew again and returned.
C8_Witness ==
  \E p \in Procs :
    /\ GeneratedCreate(p) /\ pc[p] = "mapped" /\ hist[p].result = "ok"
    /\ hist[p].attempts >= 2
    /\ \E nm \in DOMAIN ns : ns[nm] # NoObj /\ ns[nm] # hist[p].created

\* The call of p attached, after the creating call had returned, and holds
\* the handle.
AttachedLate(p) == pc[p] = "mapped" /\ ~loc[p].create /\ hist[p].late

\* A creator's handle records the size it asked for, which is the object's.
CreatedSizeRecorded ==
  \A q \in Procs :
    (pc[q] = "mapped" /\ loc[q].create) =>
      /\ self[q]._size = loc[q].arg_size
      /\ objs[hist[q].created].size = loc[q].arg_size

\* The original statement of C9: a handle attached after a successful
\* creation of size S records the size S, on both platform families.
C9_AttachedSizeEqualsCreatedSize ==
  \A p \in Procs :
    AttachedLate(p) => self[p]._size = objs[self[p]._mmap.obj].size

\* C9, amended: a handle attached (with a size argument >= 0, which is
\* ignored) after a successful creation of size S records S on POSIX and,
\* on Windows, S rounded up to a whole number of pages; a negative size
\* argument is refused with InvalidSize.
C9_AttachedSizeDiscovered ==
  /\ CreatedSizeRecorded
  /\ \A p \in Procs :
       /\ AttachedLate(p) =>
            LET S == objs[self[p]._mmap.obj].size IN
              /\ S > 0
              /\ self[p]._mmap.len = self[p]._size
              /\ IF USE_POSIX THEN self[p]._size = S
                 ELSE /\ self[p]._size % PAGESIZE = 0
                      /\ self[p]._size >= S
                      /\ self[p]._size - S < PAGESIZE
       /\ (pc[p] # "idle" /\ ~loc[p].create /\ loc[p].arg_size < 0)
            => pc[p] = "failed" /\ hist[p].result = "InvalidSize"

\* A handle attached with a size argument that is not the object's size,
\* next to the creator's handle.
C9_Witness ==
  \E p \in Procs, q \in Procs :
    /\ AttachedLate(p)
    /\ pc[q] = "mapped" /\ loc[q].create
    /\ self[p]._mmap.obj = hist[q].created
    /\ loc[p].arg_size # loc[q].arg_size
    /\ loc[q].arg_size % PAGESIZE # 0

\* An explicit-name creation takes its exclusive-creation step: when the
\* name is free the call creates a new object under it (or the primitive
\* fails and nothing changes); when it is taken the call creates nothing,
\* is on its way to FileExistsError, and the object under the name, its
\* name and the handles of the others are as before.
C10_RaceStep ==
  \A p \in Procs :
    (ExplicitAttempt(p) /\ pc'[p] # pc[p]) =>
      IF ns[KernelName(p)] = NoObj
      THEN \/ /\ hist'[p].created = Len(objs) + 1
              /\ Len(objs') = Len(objs) + 1
              /\ ns'[KernelName(p)] = hist'[p].created
              /\ pc'[p] \in {"ftruncate", "create_mmap"}
           \/ /\ pc'[p] = "failed" /\ hist'[p].result = "OSError"
              /\ ns' = ns /\ objs' = objs
      ELSE /\ hist'[p].created = NoObj
           /\ ns' = ns /\ objs' = objs
           /\ \A q \in Procs \ {p} : handles'[q] = handles[q] /\ self'[q] = self[q]
           /\ \/ pc'[p] = "failed"
              \/ pc'[p] = "CloseHandle" /\ loc'[p].exc = "FileExistsError"

\* C10: of the processes that create the same caller-supplied name, the one
\* whose exclusive-creation primitive finds the name free creates the object
\* and every other finds it taken and fails with FileExistsError, leaving
\* the object alone; no two creators' handles are ever on the same object.
C10_ExclusiveCreationRace ==
  /\ [](\A p \in Procs :
          /\ (pc[p] = "mapped" /\ loc[p].create) =>
               /\ hist[p].created # NoObj
               /\ self[p]._mmap.obj = hist[p].created
          /\ \A q \in Procs \ {p} :
               (/\ pc[p] = "mapped" /\ loc[p].create
                /\ pc[q] = "mapped" /\ loc[q].create)
                 => self[p]._mmap.obj # self[q]._mmap.obj
          /\ \A q \in Procs \ {p} :
               (/\ hist[p].created # NoObj /\ ~Ended(p)
                /\ hist[q].created # NoObj /\ ~Ended(q))
                 => hist[p].created # hist[q].created)
  /\ [][C10_RaceStep]_vars

\* Two creations of one caller-supplied name overlapped: one call has
\* created the object and not yet returned, the other has already failed
\* with FileExistsError.
C10_Witness ==
  \E p \in Procs, q \in Procs :
    /\ p # q
    /\ loc[p].create /\ loc[p].arg_name # None
    /\ hist[p].created # NoObj /\ ~Ended(p)
    /\ \E nm \in DOMAIN ns : ns[nm] = hist[p].created
    /\ pc[q] = "failed" /\ hist[q].result = "FileExistsError"
    /\ loc[q].arg_name = loc[p].arg_name

(***************************************************************************)
(* The name generator on its own: _make_filename() is called again and     *)
(* again, on either platform, with random bytes drawn from ByteStrings.    *)
(***************************************************************************)
\* The values one random byte takes here: the least, and two whose nibbles
\* differ and lie on either side of the digit/letter border (0x0a, 0x9f).
ByteVals == {0, 10, 159}

\* The byte strings secrets.token_bytes(n) is drawn from.
ByteStrings(n) == [1..n -> ByteVals]

\* What is observed of one call of the generator: the bytes it drew.
DrawnHist(r) == [drawn |-> r] @@ NewHist

\* As Init, with nothing drawn yet.
NameInit ==
  /\ USE_POSIX \in BOOLEAN
  /\ ns = [nm \in KernelNames(USE_POSIX) |-> NoObj]
  /\ objs = << >>
  /\ handles = [p \in Procs |-> {}]
  /\ tracker = {}
  /\ pc = [p \in Procs |-> "idle"]
  /\ self = [p \in Procs |-> NewSelf]
  /\ loc = [p \in Procs |-> NewLoc]
  /\ hist = [p \in Procs |-> DrawnHist(<< >>)]
  /\ ncalls = 0

\* Lines 69 and 107: a call of _make_filename(); its result goes to the
\* local the code assigns it to.
MakeFilename(p) ==
  /\ \E r \in ByteStrings(nbytes(USE_POSIX)) :
       /\ loc' = [loc EXCEPT ![p].temp_name = _make_filename(USE_POSIX, r)]
       /\ hist' = [hist EXCEPT ![p] = DrawnHist(r)]
  /\ UNCHANGED <<USE_POSIX, ns, objs, handles, tracker, pc, self, ncalls>>

NameNext == \E p \in Procs : MakeFilename(p)

SpecName == NameInit /\ [][NameNext]_vars

\* The value of one hexadecimal character, 16 for any other character.
HexValue(c) ==
  IF \E v \in 0..15 : HexChars[v + 1] = c
  THEN CHOOSE v \in 0..15 : HexChars[v + 1] = c
  ELSE 16

\* C11: every name the generator returns is at most 14 characters long and
\* is the platform prefix ('/psm_' or 'wnsm_') followed by hexadecimal
\* characters only, two for each of the (14 - len(prefix)) // 2 >= 2 random
\* bytes, which they encode high nibble first.
C11_GeneratedNameFormat ==
  \A p \in Procs :
    loc[p].temp_name # None =>
      LET name == loc[p].temp_name
          prefix == IF USE_POSIX THEN <<"/", "p", "s", "m", "_">>
                    ELSE <<"w", "n", "s", "m", "_">>
          n == (14 - Len(prefix)) \div 2
          suffix == SubSeq(name, Len(prefix) + 1, Len(name))
      IN
        /\ Len(name) <= 14
        /\ SubSeq(name, 1, Len(prefix)) = prefix
        /\ n >= 2 /\ Len(suffix) = 2 * n
        /\ \A i \in 1..Len(suffix) : HexValue(suffix[i]) < 16
        /\ Len(hist[p].drawn) = n
        /\ \A k \in 1..n :
             16 * HexValue(suffix[2 * k - 1]) + HexValue(suffix[2 * k])
               = hist[p].drawn[k]

\* The generator has returned a name that starts with the bytes 0x0a and
\* 0x9f to one process, and a name of bytes 0x9f only to the other.
C11_Witness ==
  \E p \in Procs, q \in Procs :
    /\ p # q
    /\ loc[p].temp_name # None /\ loc[q].temp_name # None
    /\ hist[p].drawn[1] = 10 /\ hist[p].drawn[2] = 159
    /\ \A k \in DOMAIN hist[q].drawn : hist[q].drawn[k] = 159

(***************************************************************************)
(* Termination.  The namespace is shared with every program of the         *)
(* machine: on POSIX, where a name stays until it is unlinked, some of the *)
(* generator's names may exist before the first call.  A call in progress  *)
(* keeps running, and the random draws are fair: a candidate that is free  *)
(* again and again is eventually drawn.                                    *)
(***************************************************************************)
\* The objects left in the namespace by earlier programs, one for each name
\* of taken, and the namespace that holds them.
LeftObjs(taken) ==
  [i \in 1..Cardinality(taken) |-> [NewObject(PAGESIZE) EXCEPT !.ready = TRUE]]

LeftNs(posix, taken) ==
  LET id == CHOOSE f \in [taken -> 1..Cardinality(taken)] :
                     \A a \in taken, b \in taken : f[a] = f[b] => a = b
  IN [nm \in KernelNames(posix) |-> IF nm \in taken THEN id[nm] ELSE NoObj]

FairInit ==
  /\ USE_POSIX \in BOOLEAN
  /\ \E taken \in SUBSET Candidates(USE_POSIX) :
       /\ ~USE_POSIX => taken = {}
       /\ ns = LeftNs(USE_POSIX, taken)
       /\ objs = LeftObjs(taken)
  /\ handles = [p \in Procs |-> {}]
  /\ tracker = {}
  /\ pc = [p \in Procs |-> "idle"]
  /\ self = [p \in Procs |-> NewSelf]
  /\ loc = [p \in Procs |-> NewLoc]
  /\ hist = [p \in Procs |-> NewHist]
  /\ ncalls = 0

\* A step of the call of p that is in progress.
CallStep(p) ==
  \/ ShmOpenGenerated(p) \/ ShmOpenNamed(p) \/ Ftruncate(p) \/ Fstat(p)
  \/ PosixMmap(p) \/ UnlinkOnError(p) \/ Register(p)
  \/ WinCreateFileMapping(p) \/ WinCreateMmap(p) \/ WinCreateCloseHandle(p)
  \/ WinOpenFileMapping(p) \/ WinMapViewOfFile(p) \/ WinAttachCloseHandle(p)
  \/ WinVirtualQuerySize(p) \/ WinAttachMmap(p) \/ WinUnmapViewOfFile(p)

\* The retry loop of p draws a candidate that is free and creates it.
DrawsFree(p) ==
  /\ ShmOpenGenerated(p) \/ WinCreateFileMapping(p)
  /\ hist'[p].created # NoObj

SpecFair ==
  /\ FairInit /\ [][Next]_vars
  /\ \A p \in Procs : WF_vars(CallStep(p)) /\ SF_vars(DrawsFree(p))

InCall(p) == pc[p] \notin {"idle", "failed", "mapped", "closed"}

\* The names the generator draws from.
CandidateSpace ==
  {_SHM_NAME_PREFIX(USE_POSIX) \o token_hex(r) :
     r \in RandDraws(nbytes(USE_POSIX))}

\* The retry loop of p is about to draw, and every name it can draw is in use.
Exhausted(p) ==
  /\ GeneratedCreate(p) /\ pc[p] \in {"shm_open", "CreateFileMapping"}
  /\ \A nm \in CandidateSpace : nm \in DOMAIN ns /\ ns[nm] # NoObj

\* The original statement of C12: every open call terminates, also a
\* creation with the name omitted when candidate names are in use.
C12_EveryCallTerminates ==
  \A p \in Procs : InCall(p) ~> Ended(p)

\* C12, amended: every open call terminates (returns or raises), except
\* that the retry loop of a creation with the name omitted, which has no cap,
\* keeps drawing for as long as every candidate name is in use.
C12_TerminatesUnlessExhausted ==
  \A p \in Procs : InCall(p) ~> (Ended(p) \/ Exhausted(p))

\* A creation with the name omitted collided with a name an earlier program
\* left in the namespace, drew again and returned.
C12_Witness ==
  \E p \in Procs :
    /\ GeneratedCreate(p) /\ pc[p] = "mapped" /\ hist[p].attempts >= 2
    /\ \E nm \in CandidateSpace :
         /\ ns[nm] # NoObj /\ objs[ns[nm]].ready
         /\ \A q \in Procs : hist[q].created # ns[nm]

\* C13: on POSIX register(name, "shared_memory") is called once for each
\* successful open(create=True), after the mapping succeeded, never for an
\* open that fails and not for an open that attaches.
C13_RegisteredOncePerCreation ==
  \A p \in Procs :
    USE_POSIX =>
      /\ (pc[p] \in {"mapped", "closed"} /\ loc[p].create)
           => hist[p].registered = 1
      /\ (InCall(p) \/ pc[p] = "failed") => hist[p].registered = 0
      /\ ~loc[p].create => hist[p].registered = 0

\* The handles and views the call of p holds at each point of the Windows
\* path: the handle h_map from CreateFileMapping or OpenFileMapping until
\* its CloseHandle, the probe view p_buf from MapViewOfFile until its
\* UnmapViewOfFile, and the persistent view once it is mapped.
HeldDuringCall(p) ==
  LET h_map == {<<"h_map", loc[p].h_map>>}
      p_buf == {<<"p_buf", loc[p].p_buf>>}
      view == IF self[p]._mmap = NoMap THEN {}
              ELSE {<<"mmap", self[p]._mmap.obj>>}
  IN
    CASE pc[p] \in {"create_mmap", "MapViewOfFile"} -> h_map
      [] pc[p] = "CloseHandle" -> h_map \cup view
      [] pc[p] = "attach_CloseHandle" ->
           IF loc[p].exc = "none" THEN h_map \cup p_buf ELSE h_map
      [] pc[p] \in {"VirtualQuerySize", "attach_mmap"} -> p_buf
      [] pc[p] = "UnmapViewOfFile" -> p_buf \cup view
      [] pc[p] = "mapped" -> view
      [] OTHER -> {}

\* C14: on Windows the call holds exactly the handles and views it has
\* obtained and not yet released: each CloseHandle and UnmapViewOfFile
\* releases one that is held, on every exit path; when open has returned
\* the process holds only the persistent view, and when it has raised it
\* holds no handle and no view.
C14_HandlesReleasedOnEveryPath ==
  \A p \in Procs :
    ~USE_POSIX =>
      /\ handles[p] = HeldDuringCall(p)
      /\ \A h \in handles[p] : h[2] # NoObj
      /\ pc[p] = "mapped" => Cardinality(handles[p]) = 1
      /\ pc[p] \in {"failed", "closed", "CreateFileMapping"} => handles[p] = {}

\* An attach has failed after it had opened the object of another process,
\* which still holds it.
C14_Witness ==
  \E p \in Procs, q \in Procs :
    /\ ~USE_POSIX /\ p # q
    /\ pc[p] = "failed" /\ ~loc[p].create /\ hist[p].late
    /\ pc[q] = "mapped" /\ handles[q] # {}

\* An attach of p fails with this step: on POSIX the namespace, the objects
\* and the tracker are as before; on Windows what other processes
\* reference is as before.
FailingAttachStep ==
  \A p \in Procs :
    (InCall(p) /\ ~loc[p].create /\ pc'[p] = "failed") =>
      IF USE_POSIX
      THEN /\ ns' = ns /\ tracker' = tracker
           /\ \A nm \in DOMAIN ns : ns[nm] # NoObj => objs'[ns[nm]] = objs[ns[nm]]
      ELSE OthersObjectsKept(p)

\* C15: an open(create=False) that fails after it has opened the object
\* neither removes nor alters the object: it is still in the namespace
\* under its name.
C15_FailedAttachKeepsObject == [][FailingAttachStep]_vars

\* The tagged mmap of p maps a view: no object is created by it and no name
\* changes.
TaggedMmapStep ==
  \A p \in Procs :
    (pc[p] \in {"create_mmap", "attach_mmap"} /\ pc'[p] # pc[p]) =>
      /\ Len(objs') = Len(objs) /\ ns' = ns
      /\ self'[p]._mmap # NoMap =>
           self'[p]._mmap.obj =
             IF pc[p] = "create_mmap" THEN loc[p].h_map ELSE loc[p].p_buf

\* C16: on Windows the call keeps the object referenced, by the handle of
\* CreateFileMapping (create) or by the probe view (attach), from the
\* moment it has it until the tagged mmap is done, whatever other processes
\* close meanwhile: the name stays bound to that object, the tagged mmap
\* creates no object, and the persistent view is a view of that object.
C16_PersistentViewOfSameObject ==
  /\ [](\A p \in Procs :
          ~USE_POSIX =>
            /\ pc[p] = "create_mmap" =>
                 /\ <<"h_map", loc[p].h_map>> \in handles[p]
                 /\ ns[loc[p].temp_name] = loc[p].h_map
                 /\ hist[p].created = loc[p].h_map
            /\ pc[p] \in {"VirtualQuerySize", "attach_mmap"} =>
                 /\ <<"p_buf", loc[p].p_buf>> \in handles[p]
                 /\ ns[loc[p].name] = loc[p].p_buf
            /\ (pc[p] = "CloseHandle" /\ loc[p].exc = "none") =>
                 /\ self[p]._mmap.obj = loc[p].h_map
                 /\ ns[loc[p].temp_name] = loc[p].h_map
            /\ (pc[p] = "UnmapViewOfFile" /\ loc[p].exc = "none") =>
                 /\ self[p]._mmap.obj = loc[p].p_buf
                 /\ ns[loc[p].name] = loc[p].p_buf
            /\ pc[p] = "mapped" => ns[self[p]._name] = self[p]._mmap.obj)
  /\ [][TaggedMmapStep]_vars

\* An attach has mapped its persistent view of the object it probed while
\* no other process holds that object any more.
C16_Witness ==
  \E p \in Procs :
    /\ ~USE_POSIX /\ pc[p] = "UnmapViewOfFile" /\ loc[p].exc = "none"
    /\ self[p]._mmap.obj = loc[p].p_buf
    /\ ~HeldByOther(p, loc[p].p_buf)
    /\ \E q \in Procs \ {p} : pc[q] = "closed" /\ hist[q].created = loc[p].p_buf

\* C17: after a successful open the size recorded in the handle is the
\* length of the view that was mapped and the name recorded is a name of
\* the kernel namespace, the one the object was created or opened under;
\* after a failed open(create=True) on Windows no name is recorded.
C17_SizeAndNameRecorded ==
  \A p \in Procs :
    /\ pc[p] = "mapped" =>
         /\ self[p]._size = self[p]._mmap.len
         /\ self[p]._name \in DOMAIN ns
         /\ loc[p].arg_name # None =>
              self[p]._name = PosixName(USE_POSIX, loc[p].arg_name)
    /\ (~USE_POSIX /\ pc[p] = "failed" /\ loc[p].create)
         => self[p]._name = None

=============================================================================
